---- MODULE Spec2Model ----
(***************************************************************************)
(* Streaming pipelines of diart: VoiceActivityDetection (voice.py) and     *)
(* Transcription (transcription.py).                                       *)
(*                                                                         *)
(* Time is counted in ticks; there are TicksPerSecond ticks in a second.   *)
(* A chunk is an audio segment [start, start + duration) carrying a number *)
(* of samples.  The segmentation model answers one frame per tick, so a    *)
(* chunk of `duration` ticks has `duration` frames and the frame           *)
(* resolution (voice.py:185) is one tick.  Scores are 0 or 1 and the       *)
(* threshold tau_active is the rational TauNum / TauDen.                   *)
(*                                                                         *)
(* One behaviour follows one pipeline object: Init constructs either a     *)
(* VoiceActivityDetection or a Transcription pipeline from a configuration *)
(* drawn from the bounded sets below.  SpecArgs is Spec with the arguments *)
(* of the configuration remembered, SpecTwo adds a second                  *)
(* VoiceActivityDetection object, SpecJoin applies join_predictions.       *)
(***************************************************************************)
EXTENDS Integers, Sequences, FiniteSets, TLC

VARIABLES
    kind,             \* which pipeline class this behaviour constructs
    peer,             \* a second VoiceActivityDetection object built from
                      \* the same configuration (NoPeer when there is none)
    args,             \* the arguments the configuration was built from:
                      \* locals of the configuration's __init__, gone
                      \* (NoArgs) once it returned, kept in SpecArgs
    config,           \* the resolved configuration object
    constructed,      \* "ok", or the exception __init__ raised
    timestamp_shift,  \* self.timestamp_shift
    chunk_buffer,     \* self.chunk_buffer
    pred_buffer,      \* self.pred_buffer
    pc,               \* position inside __call__: "idle", "loop", "appended"
                      \* (where an exception raised in the loop left it)
    pending,          \* rest of zip(waveforms, voice_detection) in the loop
    outputs,          \* the local list `outputs` of the running call
    batch,            \* `waveforms` of the current or last call
    returned,         \* what the last call returned (<<>> when it raised)
    raised,           \* exception of the last call, "none" when it returned
    seg_calls,        \* segmentation inference invocations in the last call
    asr_input,        \* inputs the ASR was invoked with in the last call
    stream,           \* index of the next chunk the audio source delivers
    processed,        \* chunks appended since construction or reset()
    unshifted,        \* per output of the running call: what was aggregated,
                      \* before the shift
    segmentations,    \* answer of the segmentation model in the last call
    last_op,          \* name of the last public method that ran
    asr_calls,        \* ASR invocations in the last call
    pre,              \* when the last call began: the start times of the
                      \* entries of the two buffers, and the shift
    received          \* starts of the chunks appended since construction or
                      \* reset(), in arrival order

vars == <<args, peer, kind, config, constructed, timestamp_shift, chunk_buffer, pred_buffer,
          pc, pending, outputs, batch, returned, raised, seg_calls, asr_input,
          stream, processed, unshifted, segmentations, last_op, asr_calls, pre,
          received>>

---------------------------------------------------------------------------
(* Bounds of the model *)

\* largest batch handed to one process call
MaxBatch == 2
\* number of chunks an audio source delivers before it ends
MaxStream == 3
\* ticks per second: durations are multiples of 1/TicksPerSecond seconds
TicksPerSecond == 2
\* sample rate (samples per second) reported by the models
ModelSampleRate == 3
\* duration (ticks) reported by the segmentation model and by the ASR model
ModelDuration == 3

\* threshold tau_active = TauNum / TauDen (default 0.5)
TauNum == 1
TauDen == 2

StepValues == {1, 2, 3}
DurationValues == {2, 3}
LatencyValues == {1, 2, 3, 4}
ShiftValues == {-1, 0, 2}
\* per-frame answers of the segmentation model: one score per speaker
SpeakerRows == {<<0, 0>>, <<0, 1>>}

None == [tag |-> "none", val |-> 0]
Num(n) == [tag |-> "num", val |-> n]
Word(w) == [tag |-> w, val |-> 0]

---------------------------------------------------------------------------
(* Arithmetic helpers *)

Min(a, b) == IF a <= b THEN a ELSE b
Max(a, b) == IF a >= b THEN a ELSE b

\* ceil(a / b) for a >= 0, b > 0
CeilDiv(a, b) == (a + b - 1) \div b

\* numpy.rint(num / den): round to nearest, ties to even
RInt(num, den) ==
    LET q == num \div den
        r == num % den
    IN  IF 2 * r < den THEN q
        ELSE IF 2 * r > den THEN q + 1
        ELSE IF q % 2 = 0 THEN q ELSE q + 1

---------------------------------------------------------------------------
(* Configuration objects *)

\* VoiceActivityDetectionConfig.__init__: latency None or "min" becomes the
\* step, "max" becomes the duration ARGUMENT (self._duration, which is still
\* None when the duration was left to the model), a number stays.
ResolveLatency(durationArg, step, latencyArg) ==
    IF latencyArg.tag \in {"none", "min"} THEN Num(step)
    ELSE IF latencyArg.tag = "max" THEN durationArg
    ELSE latencyArg

\* VoiceActivityDetectionConfig.duration / TranscriptionConfig.duration:
\* the argument, or the model's duration when the argument is None.
ResolveDuration(durationArg) ==
    IF durationArg.tag = "none" THEN ModelDuration ELSE durationArg.val

VoiceActivityDetectionConfig(durationArg, step, latencyArg) ==
    [ duration     |-> ResolveDuration(durationArg),
      step         |-> step,
      latency      |-> ResolveLatency(durationArg, step, latencyArg),
      sample_rate  |-> ModelSampleRate,
      segmentation |-> TRUE ]

\* TranscriptionConfig: step and latency are the duration; the segmentation
\* pre-filter is optional.
TranscriptionConfig(durationArg, segmentation) ==
    [ duration     |-> ResolveDuration(durationArg),
      step         |-> ResolveDuration(durationArg),
      latency      |-> Num(ResolveDuration(durationArg)),
      sample_rate  |-> ModelSampleRate,
      segmentation |-> segmentation ]

DurationArgs == {None} \cup {Num(d) : d \in DurationValues}
LatencyArgs == {None, Word("min"), Word("max")} \cup {Num(l) : l \in LatencyValues}

\* variant: the upper bound of the assertion is forgotten
LatencyCheckNoUpperBound(cfg) ==
    IF cfg.latency.tag # "num" THEN "TypeError"
    ELSE IF cfg.step <= cfg.latency.val THEN "ok"
    ELSE "AssertionError"

\* VoiceActivityDetection.__init__, lines 107-108: the assertion
\* step <= latency <= duration.  Comparing a number with None raises TypeError.
LatencyCheck(cfg) ==
    IF cfg.latency.tag # "num" THEN "TypeError"
    ELSE IF cfg.step <= cfg.latency.val /\ cfg.latency.val <= cfg.duration THEN "ok"
    ELSE "AssertionError"

\* expected_num_samples = int(np.rint(duration * sample_rate))
ExpectedNumSamples(cfg) == RInt(cfg.duration * cfg.sample_rate, TicksPerSecond)

---------------------------------------------------------------------------
(* blocks.DelayedAggregation and blocks.Binarize *)

\* num_overlapping_windows = ceil(latency / step)
NumOverlappingWindows(step, latency) == CeilDiv(latency, step)

\* the buffer entry `w` covers tick p; an entry is [start, data], data holding
\* one value per tick
Covers(w, p) == w.start <= p /\ p < w.start + Len(w.data)

\* variant: the target window is the whole extent of the newest window
RegionWholeWindow(buffers, step, latency) ==
    LET last == buffers[Len(buffers)]
    IN  last.start .. (last.start + Len(last.data) - 1)

\* target window of an aggregation: it starts `latency` before the end of
\* the newest buffered window and is `step` long
Region(buffers, step, latency) ==
    LET last == buffers[Len(buffers)]
        start == last.start + Len(last.data) - latency
    IN  start .. (start + step - 1)

Contributors(buffers, p) == {i \in DOMAIN buffers : Covers(buffers[i], p)}

\* cropping: "loose" keeps every tick of the region some window covers,
\* "center" only the ticks every buffered window covers
Crop(buffers, region, cropping_mode) ==
    IF cropping_mode = "loose"
    THEN {p \in region : Contributors(buffers, p) # {}}
    ELSE {p \in region : Contributors(buffers, p) = DOMAIN buffers}

\* taper of a window of n ticks at offset k (0-based): peaks at the centre
Taper(k, n) == Min(k + 1, n - k)

RECURSIVE WeightedSum(_, _, _)
WeightedSum(buffers, p, i) ==
    IF i = 0 THEN <<0, 0>>
    ELSE LET rest == WeightedSum(buffers, p, i - 1)
             w == buffers[i]
         IN  IF Covers(w, p)
             THEN LET k == p - w.start
                      t == Taper(k, Len(w.data))
                  IN  <<rest[1] + t * w.data[k + 1], rest[2] + t>>
             ELSE rest

\* strategy "hamming": the normalised weighted blend, kept as <<num, den>>
\* strategy "first": the value of the earliest buffered window covering p
Blend(buffers, p, strategy) ==
    IF strategy = "hamming"
    THEN WeightedSum(buffers, p, Len(buffers))
    ELSE LET i == CHOOSE j \in Contributors(buffers, p) :
                      \A k \in Contributors(buffers, p) : j <= k
         IN  <<buffers[i].data[p - buffers[i].start + 1], 1>>

\* DelayedAggregation.__call__: the aggregated window as [ticks, value];
\* the buffer is not changed
DelayedAggregation(buffers, step, latency, strategy, cropping_mode) ==
    LET ticks == Crop(buffers, Region(buffers, step, latency), cropping_mode)
    IN  [ ticks |-> ticks,
          value |-> [p \in ticks |-> Blend(buffers, p, strategy)] ]

\* start and end of an aggregated window (start = end when it is empty)
WindowOf(agg, buffers, step, latency) ==
    IF agg.ticks = {}
    THEN LET r == Region(buffers, step, latency)
         IN  [start |-> CHOOSE p \in r : \A q \in r : p <= q,
              end   |-> CHOOSE p \in r : \A q \in r : p <= q]
    ELSE [start |-> CHOOSE p \in agg.ticks : \A q \in agg.ticks : p <= q,
          end   |-> 1 + CHOOSE p \in agg.ticks : \A q \in agg.ticks : p >= q]

\* Binarize(tau_active) followed by get_timeline: the maximal runs of ticks
\* whose score is >= tau_active, as segments <<start, end>>
Binarize(agg) ==
    LET active == {p \in agg.ticks :
                     agg.value[p][1] * TauDen >= TauNum * agg.value[p][2]}
    IN  {<<a, b + 1>> : <<a, b>> \in
            {ab \in active \X active :
                /\ ab[1] <= ab[2]
                /\ (ab[1] - 1) \notin active
                /\ (ab[2] + 1) \notin active
                /\ \A p \in ab[1] .. ab[2] : p \in active}}

---------------------------------------------------------------------------
(* The audio source and the external models *)

\* chunk number i of a stream whose chunks are `step` apart: the audio of
\* tick t is written t, so overlapping chunks agree where they overlap
Chunk(i, cfg, samples) ==
    [ start   |-> i * cfg.step,
      samples |-> samples,
      data    |-> [k \in 1 .. cfg.duration |-> i * cfg.step + k - 1] ]

\* sample counts a chunk may carry: the expected one or one more
SampleCounts(cfg) == {ExpectedNumSamples(cfg), ExpectedNumSamples(cfg) + 1}

\* answers of the segmentation model for n chunks: frames x speakers
Segmentations(n, cfg) == [1 .. n -> [1 .. cfg.duration -> SpeakerRows]]

\* torch.max(..., dim=-1) over the speakers of one frame
MaxOverSpeakers(row) == Max(row[1], row[2])

\* the text the ASR model answers for a chunk
TextOf(wav) == "text" \o ToString(wav.start)

\* the pipeline state a call finds: the two buffers and the shift
Snapshot(chunks, preds, shift) ==
    [chunk_buffer |-> chunks, pred_buffer |-> preds, timestamp_shift |-> shift]

\* the start times of the entries of a buffer
StartsOf(buffer) == [i \in DOMAIN buffer |-> buffer[i].start]

\* value of `pre` when the last operation was not a process call
NoCall == Snapshot(<<>>, <<>>, 0)

\* batch, returned, raised, seg_calls, asr_input, outputs, unshifted and
\* segmentations
\* describe the last operation: reset and set_timestamp_shift take no batch,
\* return nothing and invoke no model
NoResult ==
    /\ batch' = <<>>
    /\ returned' = <<>>
    /\ raised' = "none"
    /\ seg_calls' = 0
    /\ asr_input' = <<>>
    /\ outputs' = <<>>
    /\ unshifted' = <<>>
    /\ segmentations' = <<>>
    /\ asr_calls' = 0
    /\ pre' = NoCall

---------------------------------------------------------------------------
(* VoiceActivityDetection *)

\* variant: only the start of each segment is shifted
ShiftStartsOnly(timeline, shift) ==
    IF shift # 0
    THEN {<<seg[1] + shift, seg[2]>> : seg \in timeline}
    ELSE timeline

\* variant: the rebuilt timeline is returned also when nothing was added to it
ShiftZeroDrops(timeline, shift) ==
    IF shift # 0
    THEN {<<seg[1] + shift, seg[2] + shift>> : seg \in timeline}
    ELSE {}

\* lines 207-215: the timeline is rebuilt segment by segment only when the
\* shift is not 0
ShiftTimeline(timeline, shift) ==
    IF shift # 0
    THEN {<<seg[1] + shift, seg[2] + shift>> : seg \in timeline}
    ELSE timeline

\* line 218: to_annotation with the single label "speech"
ToAnnotation(timeline) ==
    {[start |-> seg[1], end |-> seg[2], label |-> "speech"] : seg \in timeline}

\* variant: the test made one entry too late
BufferIsFullLate(buffer, cfg) ==
    Len(buffer) = NumOverlappingWindows(cfg.step, cfg.latency.val) + 1

\* line 222: the eviction test
BufferIsFull(buffer, cfg) ==
    Len(buffer) = NumOverlappingWindows(cfg.step, cfg.latency.val)

\* variant: the eviction is made once, after the last chunk of the batch
EvictAtEndOfBatch(buffer, cfg) ==
    IF Tail(pending) = <<>> /\ BufferIsFull(chunk_buffer, cfg)
    THEN Tail(buffer) ELSE buffer

\* variant: the eviction drops the newest entry instead of the oldest
EvictNewest(buffer, cfg) ==
    IF BufferIsFull(chunk_buffer, cfg)
    THEN SubSeq(buffer, 1, Len(buffer) - 1) ELSE buffer

\* variant: nothing is ever evicted
EvictNothing(buffer, cfg) == buffer

\* lines 221-224
Evict(buffer, cfg) ==
    IF BufferIsFull(chunk_buffer, cfg) THEN Tail(buffer) ELSE buffer

\* lines 117-122 and 202: audio aggregation, strategy "first", cropping "center"
AudioAggregation(buffers, cfg) ==
    DelayedAggregation(buffers, cfg.step, cfg.latency.val, "first", "center")

\* lines 111-116 and 203: prediction aggregation, "hamming" and "loose"
PredAggregation(buffers, cfg) ==
    DelayedAggregation(buffers, cfg.step, cfg.latency.val, "hamming", "loose")

\* variant: chunks with more samples than expected are accepted
ValidateLenient(waveforms, cfg) ==
    IF Len(waveforms) < 1 THEN "AssertionError"
    ELSE IF \E i, j \in DOMAIN waveforms : waveforms[i].samples # waveforms[j].samples
    THEN "RuntimeError"
    ELSE IF waveforms[1].samples < ExpectedNumSamples(cfg) THEN "AssertionError"
    ELSE "ok"

\* lines 170-179: the checks made before any inference
Validate(waveforms, cfg) ==
    IF Len(waveforms) < 1 THEN "AssertionError"
    ELSE IF \E i, j \in DOMAIN waveforms : waveforms[i].samples # waveforms[j].samples
    THEN "RuntimeError"   \* torch.stack refuses tensors of different sizes
    ELSE IF waveforms[1].samples # ExpectedNumSamples(cfg) THEN "AssertionError"
    ELSE "ok"

\* lines 188-224: one pass of the loop of __call__ as a function of the
\* pipeline state st (a Snapshot) it starts from: the state it leaves and
\* the output it appends
ProcessChunk(st, wav, vad, cfg) ==
    LET chunks == Append(st.chunk_buffer, wav)
        preds == Append(st.pred_buffer, vad)
        agg_waveform == WindowOf(AudioAggregation(chunks, cfg), chunks, cfg.step,
                                 cfg.latency.val)
        agg_prediction == Binarize(PredAggregation(preds, cfg))
        full == BufferIsFull(chunks, cfg)
    IN  [ state  |-> Snapshot(IF full THEN Tail(chunks) ELSE chunks,
                              IF full THEN Tail(preds) ELSE preds,
                              st.timestamp_shift),
          output |-> [ annotation |->
                         ToAnnotation(ShiftTimeline(agg_prediction,
                                                    st.timestamp_shift)),
                       waveform |-> agg_waveform ] ]

\* lines 181-183: the per-chunk predictions of a batch, the maximum over
\* the speakers of the scores the segmentation model answered
VoiceDetection(waveforms, segs) ==
    [i \in DOMAIN waveforms |->
        [ start |-> waveforms[i].start,
          data  |-> [f \in DOMAIN segs[i] |-> MaxOverSpeakers(segs[i][f])] ]]

\* the chunks of a batch processed one process call per chunk, from state
\* st: the final state and the outputs of the calls, concatenated
RECURSIVE OneByOne(_, _, _, _)
OneByOne(st, waveforms, vads, cfg) ==
    IF waveforms = <<>>
    THEN [state |-> st, outputs |-> <<>>]
    ELSE LET one == ProcessChunk(st, Head(waveforms), Head(vads), cfg)
             rest == OneByOne(one.state, Tail(waveforms), Tail(vads), cfg)
         IN  [state |-> rest.state, outputs |-> <<one.output>> \o rest.outputs]

\* VoiceActivityDetection.__init__ (and the configuration it receives)
InitVAD ==
    \E d \in DurationArgs, s \in StepValues, l \in LatencyArgs :
        LET cfg == VoiceActivityDetectionConfig(d, s, l) IN
        /\ kind = "vad"
        /\ config = cfg
        /\ constructed = LatencyCheck(cfg)
        /\ timestamp_shift = 0
        /\ chunk_buffer = <<>>
        /\ pred_buffer = <<>>

\* VoiceActivityDetection.__call__, lines 170-185: validation and inference
VadCall ==
    /\ kind = "vad" /\ constructed = "ok" /\ pc = "idle"
    /\ \E n \in 0 .. MaxBatch, smp \in [1 .. MaxBatch -> SampleCounts(config)] :
        LET waveforms == [i \in 1 .. n |-> Chunk(stream + i - 1, config, smp[i])]
            check == Validate(waveforms, config)
        IN  /\ stream + n <= MaxStream
            /\ \A i \in (n + 1) .. MaxBatch : smp[i] = ExpectedNumSamples(config)
            /\ batch' = waveforms
            /\ stream' = stream + n
            /\ last_op' = "call"
            /\ outputs' = <<>>
            /\ unshifted' = <<>>
            /\ returned' = <<>>
            /\ asr_input' = <<>>
            /\ asr_calls' = 0
            /\ pre' = Snapshot(StartsOf(chunk_buffer), StartsOf(pred_buffer),
                                timestamp_shift)
            /\ IF check # "ok"
               THEN /\ raised' = check
                    /\ seg_calls' = 0
                    /\ segmentations' = <<>>
                    /\ pending' = <<>>
                    /\ pc' = "idle"
               ELSE \/ /\ raised' = "InferenceError"   \* the model failed
                       /\ seg_calls' = 1
                       /\ segmentations' = <<>>
                       /\ pending' = <<>>
                       /\ pc' = "idle"
                    \/ \E segs \in Segmentations(n, config) :
                       /\ raised' = "none"
                       /\ seg_calls' = 1
                       /\ segmentations' = segs
                       /\ pending' =
                            [i \in 1 .. n |->
                                [ wav |-> waveforms[i],
                                  vad |-> [ start |-> waveforms[i].start,
                                            data  |-> [f \in 1 .. config.duration |->
                                                MaxOverSpeakers(segs[i][f])] ] ]]
                       /\ pc' = "loop"
    /\ UNCHANGED <<args, peer, kind, config, constructed, timestamp_shift, chunk_buffer,
                   pred_buffer, processed, received>>

\* lines 197-199: the next chunk and its prediction enter the buffers
VadAppend ==
    /\ kind = "vad" /\ pc = "loop"
    /\ chunk_buffer' = Append(chunk_buffer, Head(pending).wav)
    /\ pred_buffer' = Append(pred_buffer, Head(pending).vad)
    /\ processed' = processed + 1
    /\ received' = Append(received, Head(pending).wav.start)
    /\ pc' = "appended"
    /\ UNCHANGED <<args, peer, kind, config, constructed, timestamp_shift, pending, outputs,
                   batch, returned, raised, seg_calls, asr_input, stream,
                   unshifted, segmentations, last_op, asr_calls, pre>>

\* lines 201-226: aggregate, binarize, shift, emit, evict; return after the
\* last chunk of the batch
VadEmit ==
    /\ kind = "vad" /\ pc = "appended" /\ raised = "none"
    /\ LET agg_audio == AudioAggregation(chunk_buffer, config)
           agg_waveform == WindowOf(agg_audio, chunk_buffer, config.step,
                                    config.latency.val)
           agg_prediction == Binarize(PredAggregation(pred_buffer, config))
           shifted == ShiftTimeline(agg_prediction, timestamp_shift)
           out == [ annotation |-> ToAnnotation(shifted),
                    waveform   |-> agg_waveform ]
       IN  /\ outputs' = Append(outputs, out)
           /\ unshifted' = Append(unshifted, [ timeline |-> agg_prediction,
                                                waveform |-> agg_waveform ])
           /\ chunk_buffer' = Evict(chunk_buffer, config)
           /\ pred_buffer' = Evict(pred_buffer, config)
           /\ pending' = Tail(pending)
           /\ IF Tail(pending) = <<>>
              THEN /\ returned' = Append(outputs, out)
                   /\ pc' = "idle"
              ELSE /\ returned' = returned
                   /\ pc' = "loop"
    /\ UNCHANGED <<args, peer, kind, config, constructed, timestamp_shift, batch, raised,
                   seg_calls, asr_input, stream, processed, segmentations,
                   last_op, asr_calls, pre, received>>

\* lines 201-204: an aggregation block or the binarization raises; the
\* exception leaves __call__ from inside the loop, after the append of line
\* 198-199 and before the eviction of lines 221-224; the locals of the call
\* are lost with it
VadEmitRaises ==
    /\ kind = "vad" /\ pc = "appended" /\ raised = "none"
    /\ raised' = "AggregationError"
    /\ returned' = <<>>
    /\ pending' = <<>>
    /\ outputs' = <<>>
    /\ unshifted' = <<>>
    /\ segmentations' = <<>>
    /\ UNCHANGED <<args, peer, kind, config, constructed, timestamp_shift,
                   chunk_buffer, pred_buffer, pc, batch, seg_calls, asr_input,
                   stream, processed, last_op, asr_calls, pre, received>>

\* VoiceActivityDetection.set_timestamp_shift
VadSetTimestampShift ==
    /\ kind = "vad" /\ constructed = "ok" /\ pc = "idle"
    /\ \E shift \in ShiftValues : timestamp_shift' = shift
    /\ last_op' = "set_timestamp_shift"
    /\ NoResult
    /\ UNCHANGED <<args, peer, kind, config, constructed, chunk_buffer, pred_buffer, pc,
                   pending, stream, processed, received>>

\* variant: reset() forgets to zero the timestamp shift
VadResetKeepsShift ==
    /\ kind = "vad" /\ constructed = "ok"
    /\ pc = "idle" \/ raised = "AggregationError"
    /\ chunk_buffer' = <<>>
    /\ pred_buffer' = <<>>
    /\ processed' = 0
    /\ received' = <<>>
    /\ stream' \in {stream, 0}
    /\ last_op' = "reset"
    /\ pc' = "idle"
    /\ pending' = <<>>
    /\ NoResult
    /\ UNCHANGED <<args, peer, kind, config, constructed, timestamp_shift>>

\* variant: reset() empties the chunk buffer only
VadResetChunksOnly ==
    /\ kind = "vad" /\ constructed = "ok"
    /\ pc = "idle" \/ raised = "AggregationError"
    /\ timestamp_shift' = 0
    /\ chunk_buffer' = <<>>
    /\ processed' = 0
    /\ received' = <<>>
    /\ stream' \in {stream, 0}
    /\ last_op' = "reset"
    /\ pc' = "idle"
    /\ pending' = <<>>
    /\ NoResult
    /\ UNCHANGED <<args, peer, kind, config, constructed, pred_buffer>>

\* VoiceActivityDetection.reset; the caller may then start a new stream.
\* A caller that caught an exception raised inside the loop of __call__
\* resets the pipeline before it uses it again.
VadReset ==
    /\ kind = "vad" /\ constructed = "ok"
    /\ pc = "idle" \/ raised = "AggregationError"
    /\ timestamp_shift' = 0
    /\ chunk_buffer' = <<>>
    /\ pred_buffer' = <<>>
    /\ processed' = 0
    /\ received' = <<>>
    /\ stream' \in {stream, 0}
    /\ last_op' = "reset"
    /\ pc' = "idle"
    /\ pending' = <<>>
    /\ NoResult
    /\ UNCHANGED <<args, peer, kind, config, constructed>>

---------------------------------------------------------------------------
(* Transcription *)

\* the elements of a set of integers in ascending order
RECURSIVE Ascending(_)
Ascending(S) ==
    IF S = {} THEN <<>>
    ELSE LET m == CHOOSE x \in S : \A y \in S : x <= y
         IN  <<m>> \o Ascending(S \ {m})

Range(seq) == {seq[k] : k \in DOMAIN seq}

\* variant: a chunk is flagged only when every frame reaches tau_active
VoiceIndicesEveryFrame(segs) ==
    Ascending({i \in DOMAIN segs :
        \A f \in DOMAIN segs[i] :
            MaxOverSpeakers(segs[i][f]) * TauDen >= TauNum})

\* lines 162-164: the chunks with a frame whose maximum over the speakers
\* is >= tau_active, ascending (torch.where)
VoiceIndices(segs) ==
    Ascending({i \in DOMAIN segs :
        \E f \in DOMAIN segs[i] :
            MaxOverSpeakers(segs[i][f]) * TauDen >= TauNum})

\* line 172: voice index -> position in the ASR output
Mapping(has_voice) ==
    [i \in Range(has_voice) |-> CHOOSE k \in DOMAIN has_voice : has_voice[k] = i]

\* variant: the ASR texts are put at the first positions of the batch
SpliceUnmapped(waveforms, has_voice, asr_outputs) ==
    [i \in DOMAIN waveforms |->
        [ text |-> IF i <= Len(asr_outputs) THEN asr_outputs[i] ELSE "",
          wav  |-> waveforms[i] ]]

\* lines 175-178: the ASR texts spliced back among the empty strings
Splice(waveforms, has_voice, asr_outputs) ==
    [i \in DOMAIN waveforms |->
        [ text |-> IF i \in Range(has_voice)
                   THEN asr_outputs[Mapping(has_voice)[i]]
                   ELSE "",
          wav  |-> waveforms[i] ]]

\* variant: a single placeholder for the whole batch
AllEmptyOnce(waveforms) == <<[text |-> "", wav |-> waveforms[1]]>>

\* line 168
AllEmpty(waveforms) == [i \in DOMAIN waveforms |-> [text |-> "", wav |-> waveforms[i]]]

\* Transcription.__init__ (no check of the configuration)
InitTranscription ==
    \E d \in DurationArgs, seg \in BOOLEAN :
        /\ kind = "transcription"
        /\ config = TranscriptionConfig(d, seg)
        /\ constructed = "ok"
        /\ timestamp_shift = 0
        /\ chunk_buffer = <<>>
        /\ pred_buffer = <<>>

\* Transcription.__call__
TrCall ==
    /\ kind = "transcription" /\ pc = "idle"
    /\ \E n \in 0 .. MaxBatch, smp \in [1 .. MaxBatch -> SampleCounts(config)] :
        LET waveforms == [i \in 1 .. n |-> Chunk(stream + i - 1, config, smp[i])]
            check == Validate(waveforms, config)
        IN  /\ stream + n <= MaxStream
            /\ \A i \in (n + 1) .. MaxBatch : smp[i] = ExpectedNumSamples(config)
            /\ batch' = waveforms
            /\ stream' = stream + n
            /\ last_op' = "call"
            /\ IF check # "ok"
               THEN /\ raised' = check
                    /\ seg_calls' = 0
                    /\ segmentations' = <<>>
                    /\ asr_input' = <<>>
                    /\ asr_calls' = 0
                    /\ returned' = <<>>
               ELSE \/ /\ config.segmentation     \* the segmentation model failed
                       /\ raised' = "InferenceError"
                       /\ seg_calls' = 1
                       /\ segmentations' = <<>>
                       /\ asr_input' = <<>>
                       /\ asr_calls' = 0
                       /\ returned' = <<>>
                    \/ \E segs \in IF config.segmentation
                                   THEN Segmentations(n, config) ELSE {<<>>} :
                        LET has_voice == IF config.segmentation
                                         THEN VoiceIndices(segs)
                                         ELSE [i \in 1 .. n |-> i]
                            voiced == [k \in DOMAIN has_voice |-> waveforms[has_voice[k]]]
                        IN  /\ seg_calls' = IF config.segmentation THEN 1 ELSE 0
                            /\ segmentations' = segs
                            /\ IF Len(has_voice) = 0
                               THEN /\ raised' = "none"
                                    /\ asr_input' = <<>>
                                    /\ asr_calls' = 0
                                    /\ returned' = AllEmpty(waveforms)
                               ELSE /\ asr_input' = voiced
                                    /\ asr_calls' = 1
                                    /\ \/ /\ raised' = "InferenceError"  \* the ASR failed
                                          /\ returned' = <<>>
                                       \/ /\ raised' = "none"
                                          /\ returned' = Splice(waveforms, has_voice,
                                                [k \in DOMAIN voiced |-> TextOf(voiced[k])])
    /\ UNCHANGED <<args, peer, kind, config, constructed, timestamp_shift, chunk_buffer,
                   pred_buffer, pc, pending, outputs, processed, unshifted, pre,
                   received>>

\* Transcription.reset and Transcription.set_timestamp_shift: both `pass`
TrReset ==
    /\ kind = "transcription" /\ pc = "idle"
    /\ last_op' = "reset"
    /\ stream' \in {stream, 0}
    /\ NoResult
    /\ UNCHANGED <<args, peer, kind, config, constructed, timestamp_shift, chunk_buffer,
                   pred_buffer, pc, pending, processed, received>>

\* variant: set_timestamp_shift keeps the shift in the pipeline
TrSetTimestampShiftStores ==
    /\ kind = "transcription" /\ pc = "idle"
    /\ \E shift \in ShiftValues : timestamp_shift' = shift
    /\ last_op' = "set_timestamp_shift"
    /\ NoResult
    /\ UNCHANGED <<args, peer, kind, config, constructed, chunk_buffer, pred_buffer, pc,
                   pending, stream, processed, received>>

TrSetTimestampShift ==
    /\ kind = "transcription" /\ pc = "idle"
    /\ last_op' = "set_timestamp_shift"
    /\ NoResult
    /\ UNCHANGED <<args, peer, kind, config, constructed, timestamp_shift, chunk_buffer,
                   pred_buffer, pc, pending, stream, processed, received>>

---------------------------------------------------------------------------
(* The specification *)

\* arguments of VoiceActivityDetectionConfig(duration, step, latency) and
\* of TranscriptionConfig(duration, segmentation) that build cfg
ArgumentsOf(class, cfg) ==
    IF class = "vad"
    THEN {a \in [duration : DurationArgs, step : StepValues, latency : LatencyArgs] :
            VoiceActivityDetectionConfig(a.duration, a.step, a.latency) = cfg}
    ELSE {a \in [duration : DurationArgs, segmentation : BOOLEAN] :
            TranscriptionConfig(a.duration, a.segmentation) = cfg}

NoArgs == <<>>

NoPeer == <<>>

\* no call has been made yet
NothingRun ==
    /\ pc = "idle"
    /\ pending = <<>>
    /\ outputs = <<>>
    /\ returned = <<>>
    /\ raised = "none"
    /\ seg_calls = 0
    /\ asr_input = <<>>
    /\ stream = 0
    /\ processed = 0
    /\ unshifted = <<>>
    /\ segmentations = <<>>
    /\ last_op = "init"
    /\ asr_calls = 0
    /\ pre = NoCall
    /\ received = <<>>

Constructed ==
    /\ InitVAD \/ InitTranscription
    /\ batch = <<>>
    /\ NothingRun

Init == Constructed /\ args = NoArgs /\ peer = NoPeer

\* the same pipelines, the arguments of the configuration remembered
InitArgs == Constructed /\ args \in ArgumentsOf(kind, config) /\ peer = NoPeer

Next ==
    \/ VadCall
    \/ VadAppend
    \/ VadEmit
    \/ VadEmitRaises
    \/ VadSetTimestampShift
    \/ VadReset
    \/ TrCall
    \/ TrReset
    \/ TrSetTimestampShift

Spec == Init /\ [][Next]_vars

SpecArgs == InitArgs /\ [][Next]_vars

---------------------------------------------------------------------------
(* VoiceActivityDetection.join_predictions                                 *)
(* In the behaviours of SpecJoin one tick is 0.05 s, the default           *)
(* merge_collar (voice.py:27): 0.1 s is two ticks.                         *)

\* largest end of a segment of a prediction
MaxTime == 4
\* largest number of predictions joined
MaxPredictions == 2
\* largest number of segments of one prediction
MaxSegments == 2

\* merge_collar values, in ticks
MergeCollars == {0, 1, 2}

\* the timelines a chunk's prediction may hold: what Binarize gives, disjoint
\* segments with a gap between them
Timelines ==
    {T \in SUBSET {ab \in (0 .. MaxTime) \X (0 .. MaxTime) : ab[1] < ab[2]} :
        /\ Cardinality(T) <= MaxSegments
        /\ \A x, y \in T : x = y \/ x[2] < y[1] \/ y[2] < x[1]}

\* the lists of predictions handed to join_predictions
PredictionLists ==
    UNION {[1 .. n -> {ToAnnotation(T) : T \in Timelines}] : n \in 0 .. MaxPredictions}

\* the segments of an annotation sorted by start, then by end (the order of
\* pyannote's timelines)
RECURSIVE Sorted(_)
Sorted(segments) ==
    IF segments = {} THEN <<>>
    ELSE LET m == CHOOSE a \in segments : \A b \in segments :
                    a[1] < b[1] \/ (a[1] = b[1] /\ a[2] <= b[2])
         IN  <<m>> \o Sorted(segments \ {m})

\* lines 158-159: result.update(pred) for every prediction; a segment that
\* is in two predictions is kept once
RECURSIVE UpdateAll(_, _)
UpdateAll(result, predictions) ==
    IF predictions = <<>> THEN result
    ELSE UpdateAll(result \cup Head(predictions), Tail(predictions))

\* Timeline.support(collar): walking the sorted segments, a segment is fused
\* with the one being built when there is no gap between them or the gap is
\* shorter than the collar
RECURSIVE SupportIter(_, _, _)
SupportIter(new_segment, segments, collar) ==
    IF segments = <<>> THEN {new_segment}
    ELSE LET segment == Head(segments)
             gap == segment[1] - new_segment[2]
         IN  IF gap <= 0 \/ gap < collar
             THEN SupportIter(<<new_segment[1], Max(new_segment[2], segment[2])>>,
                              Tail(segments), collar)
             ELSE {new_segment} \cup SupportIter(segment, Tail(segments), collar)

\* line 160: Annotation.support(collar), all segments carrying "speech"
Support(annotation, collar) ==
    LET segments == Sorted({<<a.start, a.end>> : a \in annotation})
    IN  IF segments = <<>> THEN {}
        ELSE ToAnnotation(SupportIter(Head(segments), Tail(segments), collar))

\* variant: support() is called without the collar
JoinWithoutCollar(predictions, merge_collar) ==
    Support(UpdateAll({}, predictions), 0)

\* lines 157-160
Join(predictions, merge_collar) ==
    Support(UpdateAll({}, predictions), merge_collar)

\* a VoiceActivityDetection pipeline about to join a list of predictions;
\* of its configuration only merge_collar is read
InitJoin ==
    /\ \E c \in MergeCollars : config = [merge_collar |-> c]
    /\ batch \in PredictionLists
    /\ kind = "vad"
    /\ constructed = "ok"
    /\ args = NoArgs
    /\ peer = NoPeer
    /\ timestamp_shift = 0
    /\ chunk_buffer = <<>>
    /\ pred_buffer = <<>>
    /\ NothingRun

\* VoiceActivityDetection.join_predictions(predictions), the predictions in
\* batch; predictions[0] of an empty list raises IndexError
JoinPredictions ==
    /\ kind = "vad" /\ last_op = "init"
    /\ last_op' = "join_predictions"
    /\ IF batch = <<>>
       THEN raised' = "IndexError" /\ returned' = <<>>
       ELSE raised' = "none" /\ returned' = Join(batch, config.merge_collar)
    /\ UNCHANGED <<args, peer, kind, config, constructed, timestamp_shift, chunk_buffer,
                   pred_buffer, pc, pending, outputs, batch, seg_calls,
                   asr_input, stream, processed, unshifted, segmentations,
                   asr_calls, pre, received>>

SpecJoin == InitJoin /\ [][JoinPredictions]_vars

---------------------------------------------------------------------------
(* Two VoiceActivityDetection objects                                      *)
(* The first is the pipeline of Spec; the second, peer, is driven by whole *)
(* calls on a stream of its own.                                           *)

\* variant: the buffers and the shift are kept once, for all instances
SelfShared(i) == 1

\* the object whose attributes the methods of instance i read and assign:
\* every `self.x = ...` of lines 126-127, 150-151, 154, 198-199 and 223-224
\* goes to the instance the method was called on
Self(i) == i

\* lines 125-127: the state of a newly constructed second object
NewPeer == [state |-> Snapshot(<<>>, <<>>, 0), stream |-> 0]

\* the state the methods of the second object find
PeerState ==
    IF Self(2) = 1
    THEN Snapshot(chunk_buffer, pred_buffer, timestamp_shift)
    ELSE peer.state

\* the methods of the second object leave the state st
PeerAssign(st, next_stream) ==
    IF Self(2) = 1
    THEN /\ chunk_buffer' = st.chunk_buffer
         /\ pred_buffer' = st.pred_buffer
         /\ timestamp_shift' = st.timestamp_shift
         /\ peer' = [peer EXCEPT !.stream = next_stream]
    ELSE /\ peer' = [state |-> st, stream |-> next_stream]
         /\ UNCHANGED <<chunk_buffer, pred_buffer, timestamp_shift>>

\* answers of the segmentation model to the second object: its stream is
\* all speech
PeerSegmentations(n, cfg) ==
    {[i \in 1 .. n |-> [f \in 1 .. cfg.duration |-> <<0, 1>>]]}

\* everything of the first object that the second never touches
FirstRest ==
    <<args, kind, config, constructed, pc, pending, outputs, batch, returned,
      raised, seg_calls, asr_input, stream, processed, unshifted,
      segmentations, last_op, asr_calls, pre, received>>

\* __call__ of the second object on a valid batch of its stream
PeerCall ==
    /\ peer # NoPeer
    /\ \E n \in 1 .. MaxBatch :
        /\ peer.stream + n <= MaxStream
        /\ \E segs \in PeerSegmentations(n, config) :
            LET waveforms == [i \in 1 .. n |->
                    Chunk(peer.stream + i - 1, config, ExpectedNumSamples(config))]
                run == OneByOne(PeerState, waveforms,
                                VoiceDetection(waveforms, segs), config)
            IN  PeerAssign(run.state, peer.stream + n)
    /\ UNCHANGED FirstRest

\* set_timestamp_shift of the second object
PeerSetTimestampShift ==
    /\ peer # NoPeer
    /\ \E shift \in ShiftValues :
        /\ shift # PeerState.timestamp_shift
        /\ PeerAssign([PeerState EXCEPT !.timestamp_shift = shift], peer.stream)
    /\ UNCHANGED FirstRest

\* reset of the second object, which then starts a new stream
PeerReset ==
    /\ peer # NoPeer
    /\ peer.stream > 0
    /\ PeerAssign(Snapshot(<<>>, <<>>, 0), 0)
    /\ UNCHANGED FirstRest

\* two pipelines constructed from one configuration: step 1, latency and
\* duration 2, so that each keeps one chunk between its calls
InitTwo ==
    /\ Constructed
    /\ kind = "vad" /\ constructed = "ok"
    /\ config = VoiceActivityDetectionConfig(Num(2), 1, Num(2))
    /\ args = NoArgs
    /\ peer = NewPeer

NextTwo ==
    \/ VadCall
    \/ VadAppend
    \/ VadEmit
    \/ VadEmitRaises
    \/ VadSetTimestampShift
    \/ VadReset
    \/ PeerCall
    \/ PeerSetTimestampShift
    \/ PeerReset

SpecTwo == InitTwo /\ [][NextTwo]_vars

---------------------------------------------------------------------------
(* Properties *)

IsVAD == kind = "vad" /\ constructed = "ok"
IsTranscription == kind = "transcription" /\ constructed = "ok"

\* num_overlapping_windows of the constructed VoiceActivityDetection
N == NumOverlappingWindows(config.step, config.latency.val)

VoiceFlagged == {i \in DOMAIN batch : \E k \in DOMAIN asr_input : asr_input[k] = batch[i]}

\* C3: a Transcription call that returns gives one entry per input chunk,
\* entry i paired with chunk i; the text of entry i is empty when chunk i is
\* not voice-flagged and is the ASR's text for chunk i (the ASR output at the
\* rank of i among the flagged chunks) when it is; without a pre-filter every
\* chunk is flagged.
C3_SelectiveCompute ==
    (IsTranscription /\ last_op = "call" /\ raised = "none")
        => /\ Len(returned) = Len(batch)
           /\ Len(batch) >= 1
           /\ ~config.segmentation => VoiceFlagged = DOMAIN batch
           /\ \A i \in DOMAIN batch :
                /\ returned[i].wav = batch[i]
                /\ i \notin VoiceFlagged => returned[i].text = ""
                /\ i \in VoiceFlagged =>
                    /\ returned[i].text = TextOf(batch[i])
                    /\ returned[i].text =
                         TextOf(asr_input[Cardinality({j \in VoiceFlagged : j <= i})])

C3_Witness ==
    /\ IsTranscription /\ last_op = "call" /\ raised = "none"
    /\ Len(batch) = 2 /\ VoiceFlagged = {2}
    /\ returned[1].text = "" /\ returned[2].text = TextOf(batch[2])

\* C4: after reset() a VoiceActivityDetection pipeline is in the state of a
\* newly constructed one: both buffers empty, timestamp shift 0, no call
\* running.
C4_ResetIsFresh ==
    (IsVAD /\ last_op = "reset")
        => /\ chunk_buffer = <<>>
           /\ pred_buffer = <<>>
           /\ timestamp_shift = 0
           /\ pc = "idle" /\ pending = <<>>

C4_Witness ==
    /\ IsVAD /\ last_op = "reset" /\ N >= 2
    /\ stream >= 2 /\ chunk_buffer = <<>> /\ timestamp_shift = 0

\* the precondition of a process call is violated by its batch
BadBatch ==
    \/ batch = <<>>
    \/ \E i \in DOMAIN batch :
         batch[i].samples # RInt(config.duration * config.sample_rate, TicksPerSecond)

\* C5: a process call of either pipeline on an empty batch, or on a batch with
\* a chunk of the wrong sample count, raises before anything else happens: no
\* output (not even for a prefix of the batch) and no model inference.
C5_PreconditionViolation ==
    (constructed = "ok" /\ last_op = "call" /\ BadBatch)
        => /\ raised \in {"AssertionError", "RuntimeError"}
           /\ pc = "idle"
           /\ returned = <<>> /\ outputs = <<>>
           /\ seg_calls = 0 /\ asr_input = <<>>

C5_Witness ==
    /\ constructed = "ok" /\ last_op = "call"
    /\ Len(batch) = 2
    /\ batch[1].samples = ExpectedNumSamples(config)
    /\ batch[2].samples # ExpectedNumSamples(config)
    /\ raised # "none" /\ returned = <<>>

\* the segments of an annotation, as pairs
SegmentsOf(annotation) == {<<a.start, a.end>> : a \in annotation}

\* the segments of a timeline in ascending order of their start
RECURSIVE Ordered(_)
Ordered(timeline) ==
    IF timeline = {} THEN <<>>
    ELSE LET m == CHOOSE a \in timeline : \A b \in timeline : a[1] <= b[1]
         IN  <<m>> \o Ordered(timeline \ {m})

\* the annotation of output k of the running or last call is the aggregated
\* timeline moved by the timestamp shift
AnnotationShifted(k) ==
    SegmentsOf(outputs[k].annotation) =
        {<<seg[1] + timestamp_shift, seg[2] + timestamp_shift>> :
            seg \in unshifted[k].timeline}

\* C6 as stated: every timestamp of every output pair of a
\* VoiceActivityDetection call is the unshifted one plus timestamp_shift: the
\* start and end of each segment of the annotation and the start of the
\* aggregated waveform's window.
C6_AllTimestampsShifted ==
    IsVAD =>
        \A k \in DOMAIN outputs :
            /\ AnnotationShifted(k)
            /\ outputs[k].waveform.start =
                  unshifted[k].waveform.start + timestamp_shift

\* C6 amended: the start and end of every segment of each returned annotation
\* are the unshifted ones plus timestamp_shift; the aggregated waveform is
\* returned with its window unshifted, in stream time, inside the extent of
\* the chunk it was produced for.
C6_AnnotationTimestampsShifted ==
    IsVAD =>
        \A k \in DOMAIN outputs :
            /\ AnnotationShifted(k)
            /\ outputs[k].waveform.start >= batch[k].start
            /\ outputs[k].waveform.end <= batch[k].start + config.duration
            /\ outputs[k].waveform.start <= outputs[k].waveform.end

C6_Witness ==
    /\ IsVAD /\ pc = "idle" /\ last_op = "call" /\ timestamp_shift # 0
    /\ returned # <<>> /\ returned[1].annotation # {}
    /\ returned[1].waveform.start = batch[1].start

\* C7: shifting a timeline is additive and order-preserving: for every
\* timeline the pipeline aggregates and every shift s, shifting by s and then
\* by 0 gives the timeline shifted by s once, shifting by 0 gives the timeline
\* itself, and the shifted timeline has the same number of intervals, in the
\* same order, each with the same duration, each moved by s.
C7_ShiftAdditiveOrderPreserving ==
    IsVAD =>
        \A k \in DOMAIN unshifted : \A s \in ShiftValues :
            LET tl == unshifted[k].timeline
                sh == ShiftTimeline(tl, s)
                a == Ordered(tl)
                b == Ordered(sh)
            IN  /\ ShiftTimeline(sh, 0) = sh
                /\ ShiftTimeline(tl, 0) = tl
                /\ Len(b) = Len(a) /\ Len(a) = Cardinality(tl)
                /\ \A i \in DOMAIN a :
                    /\ b[i][1] = a[i][1] + s
                    /\ b[i][2] - b[i][1] = a[i][2] - a[i][1]

C7_Witness ==
    /\ IsVAD /\ timestamp_shift # 0
    /\ \E k \in DOMAIN unshifted :
        /\ Cardinality(unshifted[k].timeline) >= 2
        /\ Cardinality(outputs[k].annotation) >= 2

LatencyInRange ==
    /\ config.latency.tag = "num"
    /\ config.step <= config.latency.val
    /\ config.latency.val <= config.duration

\* C8: constructing a VoiceActivityDetection pipeline succeeds exactly when
\* step <= latency <= duration; with a latency outside that range the
\* construction raises the assertion and no pipeline exists: no buffer is
\* ever filled and no operation ever runs.
C8_ConstructionIffLatencyInRange ==
    kind = "vad" =>
        /\ constructed = "ok" <=> LatencyInRange
        /\ (config.latency.tag = "num" /\ ~LatencyInRange)
              => constructed = "AssertionError"
        /\ constructed # "ok" =>
              /\ last_op = "init" /\ pc = "idle"
              /\ chunk_buffer = <<>> /\ pred_buffer = <<>>
              /\ processed = 0 /\ stream = 0 /\ returned = <<>>

C8_Witness ==
    /\ kind = "vad" /\ constructed = "AssertionError"
    /\ config.latency.tag = "num" /\ config.latency.val > config.duration

\* the segmentation model answered the last call and found no voice: every
\* score of every frame of every chunk is below tau_active
NoVoice ==
    /\ constructed = "ok" /\ last_op = "call" /\ pc = "idle"
    /\ segmentations # <<>>
    /\ \A i \in DOMAIN segmentations : \A f \in DOMAIN segmentations[i] :
         \A spk \in DOMAIN segmentations[i][f] :
            segmentations[i][f][spk] * TauDen < TauNum

\* the result of the last call has one entry per input chunk, in input order
OnePerChunk ==
    /\ raised = "none"
    /\ Len(returned) = Len(batch)
    /\ \A i \in DOMAIN batch :
         IF kind = "transcription"
         THEN returned[i].wav = batch[i]
         ELSE /\ returned[i].waveform.start >= batch[i].start
              /\ returned[i].waveform.end <= batch[i].start + config.duration

\* C9 as stated: a call on a valid batch in which no voice is detected in any
\* chunk raises nothing and returns one empty result per chunk, in order:
\* the empty string (Transcription), an empty annotation
\* (VoiceActivityDetection).
C9_NoVoiceAllEmpty ==
    NoVoice =>
        /\ OnePerChunk
        /\ \A i \in DOMAIN returned :
             IF kind = "transcription"
             THEN returned[i].text = ""
             ELSE returned[i].annotation = {}

\* C9 amended: a call on a valid batch in which no voice is detected in any
\* chunk raises nothing and returns one result per chunk, in order: the empty
\* string for Transcription; for VoiceActivityDetection an annotation, which
\* is empty when the buffers held no earlier chunk (first call after
\* construction or reset()).
C9_NoVoiceSuccess ==
    NoVoice =>
        /\ OnePerChunk
        /\ \A i \in DOMAIN returned :
             IF kind = "transcription"
             THEN returned[i].text = ""
             ELSE processed = Len(batch) => returned[i].annotation = {}

C9_Witness ==
    /\ NoVoice /\ kind = "vad" /\ Len(batch) = 1 /\ processed = 1
    /\ Len(returned) = 1 /\ returned[1].annotation = {}

\* the buffered chunks are `step` apart
SpacedByStep ==
    \A i \in 1 .. (Len(chunk_buffer) - 1) :
        chunk_buffer[i + 1].start = chunk_buffer[i].start + config.step

\* duration of the window an aggregation returns for the current buffers
AudioWindow ==
    WindowOf(AudioAggregation(chunk_buffer, config), chunk_buffer,
             config.step, config.latency.val)
PredWindow ==
    WindowOf(PredAggregation(pred_buffer, config), pred_buffer,
             config.step, config.latency.val)

\* C10: at steady state (the buffers hold num_overlapping_windows entries
\* when they are aggregated) the window returned by either aggregation
\* (hamming/loose on the predictions, first/center on the audio) is never
\* longer than the latency.
C10_WindowWithinLatency ==
    (IsVAD /\ pc = "appended" /\ Len(chunk_buffer) = N)
        => /\ AudioWindow.end - AudioWindow.start <= config.latency.val
           /\ PredWindow.end - PredWindow.start <= config.latency.val

C10_Witness ==
    /\ IsVAD /\ pc = "appended" /\ N >= 2 /\ Len(chunk_buffer) = N
    /\ SpacedByStep
    /\ config.latency.val < config.duration
    /\ PredWindow.end - PredWindow.start = config.step
    /\ AudioWindow.end > AudioWindow.start

\* the chunks of the last batch with a speaker score >= tau_active in some
\* frame, read off the answer of the segmentation model
Flagged ==
    {i \in DOMAIN segmentations :
        \E f \in DOMAIN segmentations[i], spk \in 1 .. 2 :
            segmentations[i][f][spk] * TauDen >= TauNum}

\* what a Transcription call returns, as a function of its batch and of the
\* answers of the models to that batch alone
ResultOf(waveforms) ==
    [i \in DOMAIN waveforms |->
        [ text |-> IF config.segmentation /\ i \notin Flagged
                   THEN "" ELSE TextOf(waveforms[i]),
          wav  |-> waveforms[i] ]]

\* C12: a Transcription pipeline holds no state: it never leaves the state it
\* was constructed in, whatever process, reset() and set_timestamp_shift()
\* calls were made, and what a process call returns is determined by the
\* batch of that call and the models' answers to it.
C12_Stateless ==
    IsTranscription
        => /\ timestamp_shift = 0 /\ chunk_buffer = <<>> /\ pred_buffer = <<>>
           /\ pc = "idle" /\ pending = <<>> /\ processed = 0
           /\ (last_op = "call" /\ raised = "none") => returned = ResultOf(batch)

C12_Witness ==
    /\ IsTranscription /\ last_op = "call" /\ raised = "none"
    /\ Len(batch) = 1 /\ batch[1].start > 0
    /\ returned = ResultOf(batch) /\ returned[1].text # ""

\* the last n entries of a sequence
LastOf(seq, n) == SubSeq(seq, Len(seq) - n + 1, Len(seq))

C15_AsrOnlyOnFlagged ==
    (IsTranscription /\ config.segmentation /\ last_op = "call")
        => /\ asr_calls <= 1
           /\ Flagged = {} => (asr_calls = 0 /\ asr_input = <<>>)
           /\ Flagged # {} =>
                /\ asr_calls = 1
                /\ Len(asr_input) = Cardinality(Flagged)
                /\ \A i \in Flagged :
                     asr_input[Cardinality({j \in Flagged : j <= i})] = batch[i]

C15_Witness ==
    /\ IsTranscription /\ config.segmentation /\ last_op = "call"
    /\ Len(batch) = 2 /\ Flagged = {2}
    /\ asr_calls = 1 /\ asr_input = <<batch[2]>>
    /\ \E f \in DOMAIN segmentations[2] : MaxOverSpeakers(segmentations[2][f]) = 0

\* both buffers have the same length and entry i of pred_buffer is the
\* prediction of entry i of chunk_buffer
Aligned ==
    /\ Len(chunk_buffer) = Len(pred_buffer)
    /\ \A i \in DOMAIN chunk_buffer :
         /\ pred_buffer[i].start = chunk_buffer[i].start
         /\ \A j \in DOMAIN segmentations :
              batch[j] = chunk_buffer[i] =>
                pred_buffer[i].data =
                    [f \in DOMAIN segmentations[j] |->
                        Max(segmentations[j][f][1], segmentations[j][f][2])]

\* C18: after every step of a VoiceActivityDetection pipeline (the append of
\* a chunk and of its prediction is one step) the two buffers are aligned:
\* same length, entry i of pred_buffer the prediction of entry i of
\* chunk_buffer; and set_timestamp_shift() changes neither buffer.
C18_BuffersAligned ==
    [][IsVAD => /\ Aligned'
                /\ last_op' = "set_timestamp_shift" =>
                        UNCHANGED <<chunk_buffer, pred_buffer>>]_vars

C18_Witness ==
    /\ IsVAD /\ N >= 3 /\ pc = "loop" /\ Len(chunk_buffer) = 2
    /\ Aligned /\ chunk_buffer[1] # chunk_buffer[2]
    /\ pred_buffer[1].data # pred_buffer[2].data

\* all but the last entry of a sequence, and the last entry
Front(seq) == SubSeq(seq, 1, Len(seq) - 1)
Last(seq) == seq[Len(seq)]

\* the chunk just appended, handled by a process call of its own made in
\* the state the pipeline had before the append
Alone ==
    ProcessChunk(Snapshot(Front(chunk_buffer), Front(pred_buffer), timestamp_shift),
                 Last(chunk_buffer), Last(pred_buffer), config)

\* C16: what a process call of a VoiceActivityDetection pipeline does with a
\* chunk of its batch (the output it adds and the chunk_buffer, pred_buffer
\* and timestamp_shift it leaves) is what a process call on that chunk alone
\* does from the same state and with the same scores, wherever the chunk is
\* in the batch; hence a batch and any split of it into consecutive smaller
\* batches give the same outputs and the same final state.
C16_BatchSplitIndependent ==
    [][(IsVAD /\ pc = "appended" /\ raised = "none"
            /\ pc' # "appended" /\ raised' = "none")
        => /\ outputs' = Append(outputs, Alone.output)
           /\ Snapshot(chunk_buffer', pred_buffer', timestamp_shift') = Alone.state
           /\ pc' = "idle" => returned' = outputs']_vars

C16_Witness ==
    /\ IsVAD /\ last_op = "call" /\ raised = "none" /\ pc = "idle"
    /\ N >= 2 /\ Len(batch) = 2 /\ Len(pre.chunk_buffer) = 1
    /\ timestamp_shift # 0
    /\ Len(returned) = 2 /\ returned[1] # returned[2]
    /\ returned[2].annotation # {}

\* C17 as stated: whenever a process call of a VoiceActivityDetection
\* pipeline raises (at the validation of the batch, at the segmentation
\* inference, or while a chunk is aggregated or binarized) chunk_buffer,
\* pred_buffer and timestamp_shift are what they were before the call.
C17_AllOrNothing ==
    (IsVAD /\ last_op = "call" /\ raised # "none")
        => /\ StartsOf(chunk_buffer) = pre.chunk_buffer
           /\ StartsOf(pred_buffer) = pre.pred_buffer
           /\ timestamp_shift = pre.timestamp_shift

\* the part of C17 the code keeps: a call that raises at the validation of
\* the batch or at the segmentation inference leaves the pipeline state as
\* it found it
RaisedBeforeLoop ==
    (IsVAD /\ last_op = "call"
        /\ raised \in {"AssertionError", "RuntimeError", "InferenceError"})
        => /\ StartsOf(chunk_buffer) = pre.chunk_buffer
           /\ StartsOf(pred_buffer) = pre.pred_buffer
           /\ timestamp_shift = pre.timestamp_shift

\* C19 as stated: whatever the step, the duration (given or left to the
\* model) and the latency argument of a VoiceActivityDetectionConfig,
\* config.latency is config.step for None and "min", config.duration for
\* "max" and the number given otherwise; so with "min" or "max" the pipeline
\* is constructed whenever step <= duration.
C19_LatencyResolution ==
    (kind = "vad" /\ args # NoArgs)
        => /\ args.latency \in {None, Word("min")} => config.latency = Num(config.step)
           /\ args.latency = Word("max") => config.latency = Num(config.duration)
           /\ args.latency.tag = "num" => config.latency = args.latency
           /\ (args.latency.tag # "num" /\ config.step <= config.duration)
                => constructed = "ok"

\* the ticks covered by a set of segments
Covered(segments) ==
    {t \in 0 .. MaxTime : \E seg \in segments : seg[1] <= t /\ t < seg[2]}

\* all the segments of the predictions joined
Joined == UNION {SegmentsOf(batch[i]) : i \in DOMAIN batch}

\* the gaps of the predictions joined: the maximal runs of ticks that no
\* segment covers, between two covered ticks
Gaps ==
    {ab \in (0 .. MaxTime) \X (0 .. MaxTime) :
        /\ ab[1] < ab[2]
        /\ \A t \in ab[1] .. ab[2] - 1 : t \notin Covered(Joined)
        /\ (ab[1] - 1) \in Covered(Joined)
        /\ ab[2] \in Covered(Joined)}

\* C13: join_predictions returns the union of the speech timelines of the
\* predictions with exactly the gaps shorter than merge_collar filled, as
\* disjoint intervals with a gap between any two; so with merge_collar = 0
\* no interval reaches over a gap (two intervals with a strictly positive
\* gap between them stay apart), and with merge_collar = 0.1 s two intervals
\* 0.05 s apart come out as one interval.
C13_JoinFusesGapsBelowCollar ==
    (last_op = "join_predictions" /\ raised = "none")
        => LET out == SegmentsOf(returned)
               collar == config.merge_collar
           IN  /\ Covered(out) =
                    Covered(Joined) \cup
                    UNION {ab[1] .. ab[2] - 1 : ab \in {g \in Gaps : g[2] - g[1] < collar}}
               /\ \A x, y \in out : x = y \/ x[2] < y[1] \/ y[2] < x[1]
               /\ \A a \in returned : a.label = "speech" /\ a.start < a.end
               /\ collar = 0 => Covered(out) = Covered(Joined)
               /\ collar = 2 =>
                    \A x, y \in Joined : y[1] - x[2] = 1 =>
                        \E z \in out : z[1] <= x[1] /\ y[2] <= z[2]

C13_Witness ==
    /\ last_op = "join_predictions" /\ raised = "none"
    /\ config.merge_collar = 2 /\ Len(batch) = 2
    /\ SegmentsOf(batch[1]) = {<<0, 1>>, <<3, 4>>}
    /\ SegmentsOf(batch[2]) = {<<1, 2>>}
    /\ SegmentsOf(returned) = {<<0, 4>>}

\* chunk_buffer, pred_buffer and timestamp_shift of the first object
FirstState == Snapshot(chunk_buffer, pred_buffer, timestamp_shift)

\* C11: with two VoiceActivityDetection objects, no step of a process,
\* reset() or set_timestamp_shift() call on one changes chunk_buffer,
\* pred_buffer or timestamp_shift of the other, at whatever point of the
\* other's call it is interleaved; and every output of the first object is
\* the one it gives for that chunk when run alone from its own state.
C11_InstancesShareNothing ==
    [][/\ peer' # peer => FirstState' = FirstState
       /\ FirstState' # FirstState => peer' = peer
       /\ (pc = "appended" /\ raised = "none"
            /\ pc' # "appended" /\ raised' = "none")
            => outputs' = Append(outputs, Alone.output)]_vars

C11_Witness ==
    /\ peer # NoPeer /\ IsVAD /\ pc = "appended"
    /\ Len(chunk_buffer) = 2 /\ Len(peer.state.chunk_buffer) = 1
    /\ peer.state.chunk_buffer[1] # chunk_buffer[1]
    /\ peer.state.pred_buffer[1] # pred_buffer[1]
    /\ peer.state.timestamp_shift # timestamp_shift
    /\ peer.stream = MaxStream /\ timestamp_shift # 0

====
